---- MODULE Spec2Model ----
(***************************************************************************)
(* Model of server.py: ReadingArchiveHandler (a SimpleHTTPRequestHandler   *)
(* with do_POST, handle_save_csv, do_OPTIONS, end_headers) served by a     *)
(* socketserver.TCPServer.  The persistent state is the file articles.csv  *)
(* in the working directory, kept here as a sequence of bytes.             *)
(***************************************************************************)
EXTENDS Integers, Sequences, FiniteSets, TLC

VARIABLES
    file,       \* articles.csv: [exists, data], data a sequence of bytes
    pending,    \* connections waiting in the listen backlog
    handlers,   \* request handlers, one record per slot (pc = "idle" when free)
    last,       \* the response of the request completed last, until the next accept
    serving,    \* serve_forever is running
    expected,   \* history: articles.csv at startup, then the bytes read by the most
                \* recent save answered 200 (not kept once ioerr is set)
    failed,     \* history: some save request was answered 500
    ioerr       \* history: some open or write of articles.csv raised OSError

vars == <<file, pending, handlers, last, serving, expected, failed, ioerr>>

----------------------------------------------------------------------------
(* Bounds of the model *)

MaxLen == 2         \* longest request stream and longest startup file, in bytes
MaxPending == 1     \* connections that wait while the server is busy
MaxHandlers == 2    \* handler slots the model can represent at once

(* The bytes of the model: "\n", "a", and the two bytes of U+00E9.  Alone, 195 *)
(* and 169 are invalid UTF-8; the pair <<195, 169>> is valid.                  *)
LF == 10
Bytes == {LF, 97, 195, 169}

RECURSIVE SeqsUpTo(_, _)
SeqsUpTo(S, n) ==
    IF n = 0 THEN {<<>>}
    ELSE LET shorter == SeqsUpTo(S, n - 1)
         IN  shorter \cup {Append(s, x) : s \in {t \in shorter : Len(t) = n - 1}, x \in S}

ByteStrings == SeqsUpTo(Bytes, MaxLen)

----------------------------------------------------------------------------
(* Requests *)

SAVE_PATH == "/api/save-csv"
Paths == {SAVE_PATH, "/api/save-csv?v=1", "/articles.csv"}

NoLength == [kind |-> "absent", n |-> 0]
ContentLengths ==
    {NoLength, [kind |-> "text", n |-> 0]} \cup {[kind |-> "int", n |-> k] : k \in 0..MaxLen}

\* The request line and headers, as parsed before the handler method is called.
\* body is the byte stream that follows them on the socket: it is known to the
\* server only from the moment rfile.read is called (<<>> until then).
Requests ==
    [method : {"POST"}, path : Paths, cl : ContentLengths, body : {<<>>}]
    \cup [method : {"GET", "HEAD", "OPTIONS"}, path : Paths, cl : {NoLength}, body : {<<>>}]

NoRequest == [method |-> "", path |-> "", cl |-> NoLength, body |-> <<>>]

----------------------------------------------------------------------------
(* bytes.decode('utf-8') and the text-mode write of open(..., 'w', encoding='utf-8') *)

\* Strict UTF-8 over one- and two-byte sequences (Bytes holds no lead byte of a
\* longer one): the well-formed prefix length at the head of b, 0 if ill-formed.
HeadLen(b) ==
    IF b[1] < 128 THEN 1
    ELSE IF b[1] >= 194 /\ b[1] <= 223 /\ Len(b) >= 2 /\ b[2] >= 128 /\ b[2] <= 191 THEN 2
    ELSE 0

RECURSIVE utf8_valid(_)
utf8_valid(b) ==
    IF b = <<>> THEN TRUE
    ELSE HeadLen(b) > 0 /\ utf8_valid(SubSeq(b, HeadLen(b) + 1, Len(b)))

\* The code points of a valid byte string.
RECURSIVE utf8_decode(_)
utf8_decode(b) ==
    IF b = <<>> THEN <<>>
    ELSE LET k  == HeadLen(b)
             cp == IF k = 1 THEN b[1] ELSE (b[1] - 192) * 64 + (b[2] - 128)
         IN  <<cp>> \o utf8_decode(SubSeq(b, k + 1, Len(b)))

RECURSIVE utf8_encode(_)
utf8_encode(t) ==
    IF t = <<>> THEN <<>>
    ELSE (IF t[1] < 128 THEN <<t[1]>>
          ELSE <<192 + (t[1] \div 64), 128 + (t[1] % 64)>>)
         \o utf8_encode(Tail(t))

\* os.linesep: "\n" on the platform of the model (POSIX); "\r\n" on Windows.
linesep_crlf == <<13, LF>>
linesep == <<LF>>

\* Text mode with newline=None: every "\n" written becomes os.linesep.
RECURSIVE translate_newlines(_)
translate_newlines(t) ==
    IF t = <<>> THEN <<>>
    ELSE (IF t[1] = LF THEN linesep ELSE <<t[1]>>) \o translate_newlines(Tail(t))

\* The bytes f.write(csv_content) hands to the file.
write_bytes(t) == utf8_encode(translate_newlines(t))

----------------------------------------------------------------------------
(* handle_save_csv, statement by statement *)

\* int(self.headers.get('Content-Length', 0)); without the default 0 a missing
\* header would raise as a malformed one does.
int_content_length_required(cl) ==
    IF cl.kind = "int" THEN [ok |-> TRUE, n |-> cl.n] ELSE [ok |-> FALSE, n |-> 0]
int_content_length(cl) ==
    IF cl.kind = "absent" THEN [ok |-> TRUE, n |-> 0]
    ELSE IF cl.kind = "int" THEN [ok |-> TRUE, n |-> cl.n]
    ELSE [ok |-> FALSE, n |-> 0]

\* self.rfile.read(n): the first n bytes of the stream, fewer at end of stream.
rfile_read(body, n) == SubSeq(body, 1, IF n < Len(body) THEN n ELSE Len(body))

\* The bytes a save request makes the handler read (<<>> when the length is refused).
BodyRead(r) == rfile_read(r.body, int_content_length(r.cl).n)

\* open('articles.csv', 'w'): creates the file or truncates it (mode 'r+' or 'a'
\* would keep the old content).
open_keep(f) == [exists |-> TRUE, data |-> f.data]
open_w(f) == [exists |-> TRUE, data |-> <<>>]

\* The flush at the end of the with block: b lands at offset 0 of the file.
flush_at_0(f, b) ==
    [exists |-> TRUE,
     data |-> b \o SubSeq(f.data, Len(b) + 1, Len(f.data))]

\* The order of the statements of the try block (lines 28-46): the file is opened
\* only after the length was parsed and the body decoded.
SaveBody_open_first == <<"open", "decode", "write", "respond">>
SaveBody == <<"decode", "open", "write", "respond">>

----------------------------------------------------------------------------
(* Responses: send_response, send_header, end_headers, send_error *)

ACAO == <<"Access-Control-Allow-Origin", "*">>

\* ReadingArchiveHandler.end_headers: one more header, then the base method.
end_headers_plain(hs) == hs
end_headers(hs) == Append(hs, ACAO)

SUCCESS_JSON == "{\"status\": \"success\", \"message\": \"CSV saved successfully\"}"

\* Lines 38-46.
success_headers_short ==
    <<<<"Content-Type", "application/json">>, ACAO,
      <<"Access-Control-Allow-Methods", "POST, OPTIONS">>>>
success_headers ==
    <<<<"Content-Type", "application/json">>, ACAO,
      <<"Access-Control-Allow-Methods", "POST, OPTIONS">>,
      <<"Access-Control-Allow-Headers", "Content-Type">>>>

\* Lines 56-60.
options_headers_short ==
    <<ACAO, <<"Access-Control-Allow-Methods", "POST, GET, OPTIONS">>>>
options_headers ==
    <<ACAO, <<"Access-Control-Allow-Methods", "POST, GET, OPTIONS">>,
      <<"Access-Control-Allow-Headers", "Content-Type">>>>

\* send_error(code, message) of the base class, as called at lines 22 and 52 and by
\* the static responder: its own headers, then self.end_headers(), then an error page
\* (none for HEAD).
send_error_headers ==
    end_headers(<<<<"Connection", "close">>, <<"Content-Type", "text/html;charset=utf-8">>>>)

\* kept is history: articles.csv is, when the handler returns, what it was when
\* the request was accepted.
Response(r, route, status, hs, body, error) ==
    [req |-> r, route |-> route, status |-> status, headers |-> hs,
     body |-> body, error |-> error, kept |-> TRUE]

NoResponse == Response(NoRequest, "", 0, <<>>, "", "")

send_error(r, route, code, error) ==
    Response(r, route, code, send_error_headers,
             IF r.method = "HEAD" THEN "" ELSE "error page", error)

----------------------------------------------------------------------------
(* The server *)

Slots == 1..MaxHandlers

NoFile == [exists |-> FALSE, data |-> <<>>]

\* before is history: articles.csv when the request was accepted.
Idle == [pc |-> "idle", step |-> 0, req |-> NoRequest, text |-> <<>>, before |-> NoFile]

AllIdle == \A i \in Slots : handlers[i].pc = "idle"

\* serve_forever of a plain TCPServer: the next connection is accepted only after
\* finish_request has returned.  (With a ThreadingMixIn it would be accepted as soon
\* as a slot is free; a server that died of a failed save would accept no more.)
CanAccept_threading == \E i \in Slots : handlers[i].pc = "idle"
CanAccept_until_failure == AllIdle /\ ~failed
CanAccept == AllIdle

FreeSlot == CHOOSE i \in Slots :
                handlers[i].pc = "idle" /\ \A j \in 1..(i - 1) : handlers[j].pc # "idle"

NoExpectation == NoFile

Init ==
    /\ file \in [exists : {TRUE}, data : ByteStrings] \cup {NoFile}
    /\ pending = 0
    /\ handlers = [i \in Slots |-> Idle]
    /\ last = NoResponse
    /\ serving = TRUE
    /\ expected = file
    /\ failed = FALSE
    /\ ioerr = FALSE

\* A client connects; its request waits in the backlog.
Connect ==
    /\ serving
    /\ pending < MaxPending
    /\ pending' = pending + 1
    /\ UNCHANGED <<file, handlers, last, serving, expected, failed, ioerr>>

\* get_request and the parse of the request line and headers.
Accept ==
    /\ serving
    /\ pending > 0
    /\ CanAccept
    /\ \E r \in Requests :
         handlers' = [handlers EXCEPT ![FreeSlot] =
                         [pc |-> "dispatch", step |-> 0, req |-> r, text |-> <<>>,
                          before |-> file]]
    /\ pending' = pending - 1
    /\ last' = NoResponse
    /\ UNCHANGED <<file, serving, expected, failed, ioerr>>

\* The handler returns: the response is on the wire and the slot is free.
\* f is articles.csv as the handler leaves it.
Finish(i, resp, f) ==
    /\ handlers' = [handlers EXCEPT ![i] = Idle]
    /\ last' = [resp EXCEPT !.kept = (f = handlers[i].before)]

\* Line 19: the path is compared by equality, query string included.
IsSavePath_prefix(path) == path \in {SAVE_PATH, "/api/save-csv?v=1"}
IsSavePath(path) == path = SAVE_PATH

\* The except clause (lines 50-52): send_error(500), the handler returns.
SaveFailed(i, r, error, f) ==
    /\ Finish(i, send_error(r, "handle_save_csv", 500, error), f)
    /\ failed' = TRUE

do_POST(i) ==
    /\ serving
    /\ handlers[i].pc = "dispatch"
    /\ handlers[i].req.method = "POST"
    /\ IF IsSavePath(handlers[i].req.path)
       THEN /\ handlers' = [handlers EXCEPT ![i].pc = "save", ![i].step = 1]
            /\ UNCHANGED last
       ELSE Finish(i, send_error(handlers[i].req, "do_POST", 404, "Not Found"), file)
    /\ UNCHANGED <<file, pending, serving, expected, failed, ioerr>>

AtStep(i, name) ==
    /\ serving
    /\ handlers[i].pc = "save"
    /\ SaveBody[handlers[i].step] = name

Advance(i) == handlers' = [handlers EXCEPT ![i].step = @ + 1]

\* Lines 28 and 31.
Decode(i) ==
    /\ AtStep(i, "decode")
    /\ LET n == int_content_length(handlers[i].req.cl)
       IN  IF ~n.ok THEN SaveFailed(i, handlers[i].req, "ValueError", file)
           ELSE \E stream \in ByteStrings :
                  LET r == [handlers[i].req EXCEPT !.body = stream]
                      b == rfile_read(stream, n.n)
                  IN  IF ~utf8_valid(b) THEN SaveFailed(i, r, "UnicodeDecodeError", file)
                      ELSE /\ handlers' = [handlers EXCEPT ![i].step = @ + 1,
                                                           ![i].req = r,
                                                           ![i].text = utf8_decode(b)]
                           /\ UNCHANGED <<last, failed>>
    /\ UNCHANGED <<file, pending, serving, expected, ioerr>>

\* Line 34.
Open(i) ==
    /\ AtStep(i, "open")
    /\ \/ /\ file' = open_w(file)
          /\ Advance(i)
          /\ UNCHANGED <<last, failed, ioerr, expected>>
       \/ /\ SaveFailed(i, handlers[i].req, "OSError", file)
          /\ ioerr' = TRUE
          /\ expected' = NoExpectation
          /\ UNCHANGED file
    /\ UNCHANGED <<pending, serving>>

\* Line 35 and the close of the with block.
Write(i) ==
    /\ AtStep(i, "write")
    /\ \/ /\ file' = flush_at_0(file, write_bytes(handlers[i].text))
          /\ Advance(i)
          /\ UNCHANGED <<last, failed, ioerr, expected>>
       \/ /\ \E k \in 0..Len(write_bytes(handlers[i].text)) :
                file' = flush_at_0(file, SubSeq(write_bytes(handlers[i].text), 1, k))
          /\ SaveFailed(i, handlers[i].req, "OSError", file')
          /\ ioerr' = TRUE
          /\ expected' = NoExpectation
    /\ UNCHANGED <<pending, serving>>

\* Lines 38-46.
Respond(i) ==
    /\ AtStep(i, "respond")
    /\ Finish(i, Response(handlers[i].req, "handle_save_csv", 200,
                          end_headers(success_headers), SUCCESS_JSON, ""), file)
    /\ expected' = IF ioerr THEN NoExpectation
                    ELSE [exists |-> TRUE, data |-> BodyRead(handlers[i].req)]
    /\ UNCHANGED <<file, pending, serving, failed, ioerr>>

\* Lines 54-60.
do_OPTIONS(i) ==
    /\ serving
    /\ handlers[i].pc = "dispatch"
    /\ handlers[i].req.method = "OPTIONS"
    /\ Finish(i, Response(handlers[i].req, "do_OPTIONS", 200,
                          end_headers(options_headers), "", ""), file)
    /\ UNCHANGED <<file, pending, serving, expected, failed, ioerr>>

\* do_GET and do_HEAD of SimpleHTTPRequestHandler: the file under the working
\* directory, or send_error(404).  articles.csv is the one file the model knows.
do_GET(i) ==
    /\ serving
    /\ handlers[i].pc = "dispatch"
    /\ handlers[i].req.method \in {"GET", "HEAD"}
    /\ LET r == handlers[i].req
       IN  \/ /\ r.path = "/articles.csv" => file.exists
              /\ Finish(i, Response(r, "static", 200,
                                    end_headers(<<<<"Content-type", "application/octet-stream">>>>),
                                    IF r.method = "HEAD" THEN "" ELSE "file content", ""),
                        file)
           \/ /\ r.path = "/articles.csv" => ~file.exists
              /\ Finish(i, send_error(r, "static", 404, "File not found"), file)
    /\ UNCHANGED <<file, pending, serving, expected, failed, ioerr>>

\* Ctrl+C (lines 72-75): KeyboardInterrupt leaves serve_forever, wherever it is.
Interrupt ==
    /\ serving
    /\ serving' = FALSE
    /\ UNCHANGED <<file, pending, handlers, last, expected, failed, ioerr>>

Next ==
    \/ Connect
    \/ Accept
    \/ Interrupt
    \/ \E i \in Slots :
         \/ do_POST(i)
         \/ Decode(i)
         \/ Open(i)
         \/ Write(i)
         \/ Respond(i)
         \/ do_OPTIONS(i)
         \/ do_GET(i)

Spec == Init /\ [][Next]_vars

----------------------------------------------------------------------------
(* Properties *)

\* The server is between requests and the response of the last one is at hand.
Completed == AllIdle /\ last # NoResponse

HasHeader(resp, name) == \E k \in 1..Len(resp.headers) : resp.headers[k][1] = name

\* articles.csv exists and reads back as the text that the bytes b decode to.
FileHoldsTextOf(b) ==
    /\ file.exists
    /\ utf8_valid(file.data)
    /\ utf8_decode(file.data) = utf8_decode(b)

PostTo(r, path) == r.method = "POST" /\ r.path = path

\* The body of r: the bytes of its stream that its Content-Length covers (none
\* without the header).
DeclaredBody(r) ==
    LET n == IF r.cl.kind = "int" THEN r.cl.n ELSE 0
    IN  SubSeq(r.body, 1, IF n < Len(r.body) THEN n ELSE Len(r.body))

\* A POST to the save path with valid UTF-8 as its body and that body's length declared.
WellFormedSave(r) ==
    /\ PostTo(r, "/api/save-csv")
    /\ r.cl.kind = "int"
    /\ r.cl.n = Len(r.body)
    /\ utf8_valid(r.body)

SaveSucceeded ==
    /\ last.status = 200
    /\ last.body = "{\"status\": \"success\", \"message\": \"CSV saved successfully\"}"
    /\ FileHoldsTextOf(last.req.body)

\* C1, as stated: every POST to /api/save-csv with a valid UTF-8 body and a matching
\* Content-Length is answered 200 with the success JSON, and articles.csv then holds
\* exactly the decoded body.
C1_EverySaveSucceeds ==
    (Completed /\ WellFormedSave(last.req)) => SaveSucceeded

\* C1, amended: such a POST is answered 200 with the success JSON and articles.csv
\* then holds exactly the decoded body (nothing of the old content remains), unless
\* opening or writing articles.csv raised an I/O error, and then the answer is 500.
C1_SaveSucceedsUnlessIOError ==
    (Completed /\ WellFormedSave(last.req)) =>
        IF last.error = "OSError" THEN last.status = 500 ELSE SaveSucceeded

\* A one-byte body has replaced other content of the file.
C1_Witness ==
    /\ Completed
    /\ WellFormedSave(last.req)
    /\ last.status = 200
    /\ last.req.body = <<97>>
    /\ ~last.kept
    /\ file.data = <<97>>

\* The request fails before the write step: the Content-Length header is no integer,
\* or the bytes read are not valid UTF-8.
FailsBeforeWrite(r) ==
    /\ PostTo(r, "/api/save-csv")
    /\ (r.cl.kind = "text" \/ ~utf8_valid(DeclaredBody(r)))

\* C2: a save that fails before the write step (bad Content-Length, undecodable body)
\* is answered 500 and leaves articles.csv exactly as it was before the request.
C2_EarlyFailureKeepsFile ==
    (Completed /\ FailsBeforeWrite(last.req)) => (last.status = 500 /\ last.kept)

\* Both ways of failing early, with a file that has content to lose.
C2_Witness ==
    /\ Completed
    /\ FailsBeforeWrite(last.req)
    /\ last.error = "UnicodeDecodeError"
    /\ last.req.body = <<195>>
    /\ file.exists /\ Len(file.data) = 2
    /\ failed

C4_OtherPostIs404 ==
    /\ \A i \in Slots :
         (handlers[i].req.method = "POST" /\ handlers[i].req.path # "/api/save-csv")
            => handlers[i].pc # "save"
    /\ (Completed /\ last.req.method = "POST" /\ last.req.path # "/api/save-csv") =>
         /\ last.status = 404
         /\ last.route # "handle_save_csv"
         /\ last.kept

\* A POST to the save path with a query string, with a length declared, got 404.
C4_Witness ==
    /\ Completed
    /\ PostTo(last.req, "/api/save-csv?v=1")
    /\ last.req.cl.kind = "int"
    /\ last.status = 404
    /\ file.exists /\ file.data # <<>>

\* C5: OPTIONS to any path is answered 200 with Access-Control-Allow-Origin,
\* -Allow-Methods and -Allow-Headers and an empty body, and leaves articles.csv unchanged.
C5_OptionsPreflight ==
    (Completed /\ last.req.method = "OPTIONS") =>
        /\ last.status = 200
        /\ HasHeader(last, "Access-Control-Allow-Origin")
        /\ HasHeader(last, "Access-Control-Allow-Methods")
        /\ HasHeader(last, "Access-Control-Allow-Headers")
        /\ last.body = ""
        /\ last.kept

C5_Witness ==
    /\ Completed
    /\ last.req.method = "OPTIONS"
    /\ last.req.path = "/api/save-csv"
    /\ file.exists /\ file.data # <<>>

\* C6: every response, whichever handler produced it, carries
\* Access-Control-Allow-Origin: * at least once.
C6_EveryResponseAllowsAnyOrigin ==
    last # NoResponse =>
        \E k \in 1..Len(last.headers) :
            last.headers[k] = <<"Access-Control-Allow-Origin", "*">>

\* Responses that only end_headers annotates: the 404 of do_POST, the 500 of a save.
C6_Witness ==
    /\ last.status = 404
    /\ last.route = "do_POST"
    /\ failed

AllowsMethodsAndHeaders ==
    /\ HasHeader(last, "Access-Control-Allow-Origin")
    /\ HasHeader(last, "Access-Control-Allow-Methods")
    /\ HasHeader(last, "Access-Control-Allow-Headers")

\* C7, as stated: every response to a POST on /api/save-csv, 500 as well as 200, and
\* every OPTIONS response sets Access-Control-Allow-Methods and -Allow-Headers besides
\* Access-Control-Allow-Origin.
C7_SaveAndOptionsSetAllCors ==
    (last # NoResponse
     /\ (PostTo(last.req, "/api/save-csv") \/ last.req.method = "OPTIONS"))
        => AllowsMethodsAndHeaders

\* C7, amended: every 200 response to a POST on /api/save-csv and every OPTIONS
\* response sets the three headers; the 500 response sets Access-Control-Allow-Origin only.
C7_SuccessAndOptionsSetAllCors ==
    /\ (last # NoResponse
        /\ ((PostTo(last.req, "/api/save-csv") /\ last.status = 200)
            \/ last.req.method = "OPTIONS"))
          => AllowsMethodsAndHeaders
    /\ (PostTo(last.req, "/api/save-csv") /\ last.status = 500) =>
          /\ HasHeader(last, "Access-Control-Allow-Origin")
          /\ ~HasHeader(last, "Access-Control-Allow-Methods")
          /\ ~HasHeader(last, "Access-Control-Allow-Headers")

C7_Witness ==
    /\ PostTo(last.req, "/api/save-csv")
    /\ last.status = 200
    /\ failed

\* C8: a failed save is not fatal.  Once a save has been answered 500 (decode error,
\* bad Content-Length or file I/O error) the server still accepts the next connection,
\* and a later save that is valid (well formed, and its own open and write succeed) is
\* answered 200 and overwrites articles.csv with its body.
C8_FailedSaveIsNotFatal ==
    failed =>
        /\ (serving /\ AllIdle /\ pending > 0) => ENABLED Accept
        /\ (Completed /\ WellFormedSave(last.req) /\ last.error # "OSError")
              => SaveSucceeded

\* After an earlier I/O failure, a valid save went through.
C8_Witness ==
    /\ failed
    /\ ioerr
    /\ Completed
    /\ WellFormedSave(last.req)
    /\ last.status = 200
    /\ last.req.body = <<195, 169>>
    /\ file.data = <<195, 169>>

IsPrefix(a, b) == Len(a) <= Len(b) /\ SubSeq(b, 1, Len(a)) = a

\* C9: one request is handled to completion before the next is accepted, so two
\* saves never interleave: after a save answered 200 articles.csv holds the complete
\* body of that save, and after any save it holds no mixture of two bodies (it is
\* untouched, or holds bytes of the save handled last only).
C9_OneRequestAtATime ==
    /\ Cardinality({i \in Slots : handlers[i].pc # "idle"}) <= 1
    /\ (Completed /\ PostTo(last.req, "/api/save-csv")) =>
          /\ last.status = 200 => (file.exists /\ file.data = DeclaredBody(last.req))
          /\ last.kept \/ (file.exists /\ IsPrefix(file.data, DeclaredBody(last.req)))

\* A save is between its truncation and its write while another client waits.
C9_Witness ==
    /\ pending > 0
    /\ \E i \in Slots :
          /\ handlers[i].pc = "save"
          /\ handlers[i].step = 3
          /\ handlers[i].text = <<233>>
          /\ file.data = <<>>

\* A request that may change articles.csv: a POST to /api/save-csv whose length
\* parses and whose bytes decode.
PassesDecoding(r) == PostTo(r, "/api/save-csv") /\ ~FailsBeforeWrite(r)

\* C10: as long as no file I/O error has occurred, articles.csv holds the body of the
\* most recent save answered 200, or its startup content if there was none; and no
\* request other than a save that passes length parsing and decoding changes the file.
C10_FileIsLastSavedBody ==
    /\ (AllIdle /\ ~ioerr) => file = expected
    /\ (Completed /\ ~PassesDecoding(last.req)) => last.kept

\* A save succeeded, then a failing save and a GET left its content in place.
C10_Witness ==
    /\ Completed
    /\ ~ioerr
    /\ failed
    /\ last.req.method = "GET"
    /\ last.status = 404
    /\ file.exists
    /\ file.data = <<195, 169>>

====
